---- MODULE Spec2Model ----
(***************************************************************************)
(* Model of the Deribit latency tester: the JSON-RPC client over one       *)
(* WebSocket (src/src/deribit_client.rs), the scripted run and timed_rpc   *)
(* (src/src/main.rs) and the latency logger (src/src/latency.rs).          *)
(*                                                                         *)
(* Three tasks run on the tokio runtime: the main task (connect, then the  *)
(* script of calls), the reader task spawned by connect, and the tick      *)
(* tracking task spawned by main.  A step of a task is the code between    *)
(* two of its .await points.  The server is the environment: the reader    *)
(* may read any frame of Frames whenever it is at ws_rx.next().            *)
(*                                                                         *)
(* Option<T> is modelled as a sequence: None is << >>, Some(x) is <<x>>.   *)
(* Instants are nanoseconds since program_start.                           *)
(***************************************************************************)
EXTENDS Integers, Sequences, FiniteSets, TLC

VARIABLES
    clock,            \* last reading of the monotonic clock (Instant::now), ns
    subscribe_raw_book, num_iterations,   \* cfg, read from config.toml
    scenario,         \* the family the server's frames are drawn from
    next_id,          \* DeribitClient.next_id
    pending,          \* DeribitClient.pending: the ids that hold a Sender
    rx,               \* the oneshot Receiver of the call in progress
    guards,           \* the task that holds each lock while it is suspended
    rstate,           \* reader task: "next", "lock" or "done"
    msg,              \* reader task: the frame it is routing
    recv_ts_mono,     \* reader task: receive time of the frame being routed
    unsolicited,      \* the frames read so far that no waiting call asked for
    md_queue,         \* the unbounded channel md_tx -> md_rx
    tick_task,        \* TRUE once main has spawned the tick tracking task
    last_tick_ns,     \* the tick cache, Option<i64>
    site, pc,         \* main task: the call it is at, and where in that call
    iter,             \* main task: the iteration index i of run_roundtrip_test
    call_id,          \* send_rpc: the id drawn by the call in progress
    tick_snap,        \* timed_rpc: tick_ts_mono_ns_opt
    send_ts_mono,     \* timed_rpc: send_ts_mono
    order_id_state,   \* main: Option<String> shared order id
    last_ack_recv_ns, \* LatencyLogger.last_ack_recv_ns, Option<i64>
    csv,              \* the rows written and flushed to the CSV file
    wbuf,             \* the rows in the buffer of the csv::Writer
    logged,           \* history: the log_sample calls that returned Ok
    drawn,            \* history: the ids drawn, in order
    written,          \* history: the ids whose request frame was written
    delivered,        \* history: the ids whose Receiver was sent a reply
    discarded,        \* history: the kinds of frame the reader has dropped
    series,           \* print_stats: data, the series it is given
    printed,          \* print_stats: it has run
    stats,            \* print_stats: the figures it printed, if any
    sample,           \* a RoundtripSample given to the CSV writer, if any
    reread            \* that sample as a CSV reader gets it back, if read

cfgVars == << subscribe_raw_book, num_iterations, scenario >>
clientVars == << next_id, pending, rx >>
readerVars == << rstate, msg, recv_ts_mono, unsolicited >>
tickVars == << md_queue, last_tick_ns >>
callVars == << call_id, tick_snap, send_ts_mono >>
scriptVars == << site, pc, iter, order_id_state, tick_task >>
logVars == << last_ack_recv_ns, csv, wbuf, logged >>
histVars == << drawn, written, delivered, discarded >>
offVars == << series, printed, stats, sample, reread >>
lockVars == << guards >>
progVars == << clock, cfgVars, lockVars, clientVars, readerVars, tickVars,
               callVars, scriptVars, logVars, histVars >>

vars == << progVars, offVars >>

(***************************************************************************)
(* Bounds of the model.                                                    *)
(***************************************************************************)
MaxIter == 1          \* num_iterations is drawn from 0..MaxIter
MaxTicks == 1         \* the clock advances at most this many times
MaxUnsolicited == 2   \* frames the server sends that answer no waiting call
TickNs == 600         \* one advance of the clock, in nanoseconds
MaxLen == 4           \* the longest series drawn for print_stats
MaxVal == 3           \* the values of a drawn series are 1..MaxVal
ScriptIter == 2       \* num_iterations in the runs of the script alone

None == << >>
Some(x) == << x >>
IsSome(o) == o # << >>
Unwrap(o) == o[1]

\* the first id, 1_i64
FirstId == 1
\* program_start, taken before anything else runs
program_start == 0
\* cfg.instrument_name
instrument_name == "BTC-PERPETUAL"

(***************************************************************************)
(* Frames: what ws_rx.next() can yield.  kind "End" is the end of the      *)
(* stream (next() yields None), "Err" an Err(_) item; the others are the   *)
(* variants of tungstenite's Message.  For a Text frame, json says whether *)
(* the body parses, and the other fields are what raw.get(..) finds in it. *)
(* A channel name is the sequence of its dot-separated parts.              *)
(***************************************************************************)
\* format!("book.{}.raw", cfg.instrument_name)
BookChannel(instrument) == << "book", instrument, "raw" >>

Channels ==
    { BookChannel(instrument_name), BookChannel("ETH-PERPETUAL"),
      << "trades", instrument_name, "raw" >> }

\* error payloads a reply may carry
Errors == { [code |-> 11044, message |-> "not_open_order"] }

\* the order id the server names in result.order.order_id of the reply to
\* request i, "ETH-<i>"
OrderIdFor(i) == << "ETH", i >>

\* result payloads of a frame with id i: an object with order.order_id
Results(i) == { Some(OrderIdFor(i)) }

Frame(k, j, i, m, c, e, r) ==
    [kind |-> k, json |-> j, id |-> i, method |-> m, channel |-> c,
     error |-> e, result |-> r]

NoFrame == Frame("", FALSE, None, None, None, None, None)

ControlFrames ==
    { Frame(k, FALSE, None, None, None, None, None) :
        k \in {"Ping", "Pong", "Binary", "Frame", "Close", "Err", "End"} }

MalformedFrames == { Frame("Text", FALSE, None, None, None, None, None) }

\* text frames without an integer id
EventFrames ==
    { Frame("Text", TRUE, None, Some("subscription"), c, None, None) :
        c \in {None} \cup { Some(ch) : ch \in Channels } }
    \cup { Frame("Text", TRUE, None, m, None, None, None) :
             m \in {Some("heartbeat")} }

\* replies with every payload
ReplyFramesFor(i) ==
    { Frame("Text", TRUE, Some(i), None, None, e, r) :
        e \in {None} \cup { Some(x) : x \in Errors },
        r \in {None} \cup { Some(x) : x \in Results(i) } }

ReplyFrames(ids) == UNION { ReplyFramesFor(i) : i \in ids }

\* replies without an error payload that name an order
PlainReplies(ids) ==
    { Frame("Text", TRUE, Some(i), None, None, None, Some(Some(OrderIdFor(i)))) :
        i \in ids }

\* text frames that carry an integer id together with the subscription marker
MarkedReplies(ids) ==
    { Frame("Text", TRUE, Some(i), Some("subscription"),
            Some(BookChannel(instrument_name)), None, None) : i \in ids }

\* the ids the server puts in a frame: an id in the table, the id the next
\* call will draw (a reply ahead of its request) and the last id drawn (a
\* reply repeated, or one between the draw and the insert)
FrameIds(next, table) == table \cup { i \in {next - 1, next} : i >= FirstId }

\* the same without the last id drawn
FreshIds(next, table) == table \cup {next}

(***************************************************************************)
(* One run draws the environment from one family: in "timing" the clock    *)
(* advances, the transport accepts every write and the server sends        *)
(* replies and market events of the subscribed channel; in "frames" the    *)
(* server sends every kind of frame; in "payload" it sends replies with    *)
(* every payload.  In the last two a write may fail and the clock is too   *)
(* coarse to tell two readings apart.                                      *)
(***************************************************************************)
Scenarios == {"timing", "frames", "payload"}

Frames(sc, next, table) ==
    CASE sc = "timing" ->
            { Frame("Text", TRUE, None, Some("subscription"),
                    Some(BookChannel(instrument_name)), None, None) }
                \cup PlainReplies(FreshIds(next, table))
      [] sc = "frames" ->
            ControlFrames \cup MalformedFrames \cup EventFrames
                \cup PlainReplies(FrameIds(next, table))
                \cup MarkedReplies(FrameIds(next, table))
      [] sc = "payload" -> ReplyFrames(FrameIds(next, table))

\* the runs in which the transport may refuse a write
WriteMayFail(sc) == sc # "timing"

\* how a log_sample call may end: "ok", or an I/O error in
\* writer.serialize or in writer.flush
LogOutcomes(sc) ==
    IF sc = "frames" THEN {"ok", "serialize", "flush"} ELSE {"ok"}

(***************************************************************************)
(* The clock.  Instant::now() never goes back; between two readings it     *)
(* stands still or advances by TickNs.                                     *)
(***************************************************************************)
Now(sc, c) ==
    {c} \cup { t \in {c + TickNs} : sc = "timing" /\ t <= MaxTicks * TickNs }

\* the runtime runs until main returns
Running == site # "exit"

(***************************************************************************)
(* Locks.  pending is a tokio Mutex and last_tick_ns a tokio RwLock; a     *)
(* guard is acquired at a lock().await, read().await or write().await and *)
(* released where it goes out of scope.  guards names, for each lock, the  *)
(* task that holds a guard of it at the .await where its step ends.        *)
(***************************************************************************)
NoGuards == [pending |-> "none", last_tick_ns |-> "none"]

\* the lock can be granted
Free(g, lock) == g[lock] = "none"

\* lock().await is granted to task
Acquire(g, lock, task) == [g EXCEPT ![lock] = task]

\* Faulty variant of DropGuard: the guard lives on past the block it was
\* taken in, across the next .await of the task.  C21 must not hold under it.
KeepGuard(g, lock) == g

\* the guard goes out of scope at the end of its block, before the next
\* .await of the task: deribit_client.rs 86 and 177, main.rs 66 and 324
DropGuard(g, lock) == [g EXCEPT ![lock] = "none"]

(***************************************************************************)
(* Reader task, deribit_client.rs 63-129.                                  *)
(***************************************************************************)
\* Faulty variant of Route: a body that does not parse ends the loop, as
\* if the parse error were propagated.  C7 must not hold under it.
RouteOrStop(f) ==
    CASE f.kind \in {"End", "Close", "Err"} -> "stop"
      [] f.kind = "Text" ->
            IF f.json
            THEN IF IsSome(f.id) THEN "reply"
                 ELSE IF f.method = Some("subscription") /\ IsSome(f.channel)
                      THEN "event" ELSE "ignore"
            ELSE "stop"
      [] OTHER -> "ignore"

\* Faulty variant of Route: a Close frame is skipped like a Ping.  C22 must
\* not hold under it.
RouteIgnoreClose(f) ==
    CASE f.kind \in {"End", "Err"} -> "stop"
      [] f.kind = "Text" ->
            IF f.json
            THEN IF IsSome(f.id) THEN "reply"
                 ELSE IF f.method = Some("subscription") /\ IsSome(f.channel)
                      THEN "event" ELSE "ignore"
            ELSE "ignore"
      [] OTHER -> "ignore"

\* Faulty variant of Route: the subscription marker is looked at before
\* the id.  C23 must not hold under it.
RouteMarkerFirst(f) ==
    CASE f.kind \in {"End", "Close", "Err"} -> "stop"
      [] f.kind = "Text" ->
            IF f.json
            THEN IF f.method = Some("subscription") /\ IsSome(f.channel)
                 THEN "event"
                 ELSE IF IsSome(f.id) THEN "reply" ELSE "ignore"
            ELSE "ignore"
      [] OTHER -> "ignore"

\* The arm of the match, and the branch inside the Text arm, a frame takes.
Route(f) ==
    CASE f.kind = "End" -> "stop"
      [] f.kind = "Text" ->
            IF f.json
            THEN IF IsSome(f.id) THEN "reply"
                 ELSE IF f.method = Some("subscription")
                      THEN IF IsSome(f.channel) THEN "event" ELSE "ignore"
                      ELSE "ignore"
            ELSE "ignore"
      [] f.kind \in {"Ping", "Pong", "Binary", "Frame"} -> "ignore"
      [] f.kind \in {"Close", "Err"} -> "stop"

\* RpcResponse built from a frame, lines 74-82
RpcResponse(f, t) ==
    [id |-> Unwrap(f.id), result |-> f.result, error |-> f.error,
     recv_ts_mono |-> t]

\* MarketDataEvent built from a frame, lines 95-98
MarketDataEvent(f, t) == [recv_ts_mono |-> t, channel |-> Unwrap(f.channel)]

\* Faulty variant of Lookup: correlation by position, the oldest entry of
\* the table whatever the id of the reply.  C1 must not hold under it.
LookupFirst(table, id) ==
    IF table # {}
    THEN Some(CHOOSE x \in table : \A y \in table : x <= y)
    ELSE None

\* guard.remove(&id): the entry taken out of the table, if any
Lookup(table, id) == IF id \in table THEN Some(id) ELSE None

\* Faulty variant of TableAfterRemove: the entry is read but left in the
\* table.  C6 must not hold under it.
TableKeep(table, hit) == table

\* the table after guard.remove(&id)
TableAfterRemove(table, hit) ==
    IF IsSome(hit) THEN table \ {Unwrap(hit)} ELSE table

\* f is the reply the call in progress waits for: the request with f's id
\* is on the wire and its Receiver is still empty
Solicited(f) ==
    /\ Route(f) = "reply"
    /\ Unwrap(f.id) \in written
    /\ Unwrap(f.id) = call_id
    /\ rx.live /\ rx.val = None

\* the elements of a sequence
Range(seq) == { seq[i] : i \in DOMAIN seq }

\* what the history records of a frame that reached no one; a reply is a
\* "duplicate" if a reply with its id was delivered before
Discard(f, served) ==
    CASE f.kind # "Text" -> "control"
      [] ~f.json -> "malformed"
      [] IsSome(f.id) ->
            IF Unwrap(f.id) \in Range(served) THEN "duplicate" ELSE "unknown_id"
      [] OTHER -> "unroutable"

\* ws_rx.next() yields f.  The Text arm reads the clock first (line 68).
\* Every branch but the reply branch runs to the end of the loop body,
\* where msg dies; the reply branch stops at pending_reader.lock().await.
ReaderNext(f) ==
    /\ Running
    /\ rstate = "next"
    /\ IF Solicited(f)
       THEN UNCHANGED unsolicited
       ELSE unsolicited < MaxUnsolicited /\ unsolicited' = unsolicited + 1
    /\ \E t \in IF f.kind = "Text" THEN Now(scenario, clock) ELSE {clock} :
          /\ clock' = t
          /\ CASE Route(f) = "reply" ->
                    /\ rstate' = "lock"
                    /\ msg' = f
                    /\ recv_ts_mono' = t
                    /\ UNCHANGED << md_queue, discarded >>
               [] Route(f) = "event" ->
                    /\ md_queue' = Append(md_queue, MarketDataEvent(f, t))
                    /\ UNCHANGED << rstate, msg, recv_ts_mono, discarded >>
               [] Route(f) = "stop" ->
                    /\ rstate' = "done"
                    /\ UNCHANGED << msg, recv_ts_mono, md_queue, discarded >>
               [] OTHER ->
                    /\ discarded' = discarded \cup {Discard(f, delivered)}
                    /\ UNCHANGED << rstate, msg, recv_ts_mono, md_queue >>
    /\ UNCHANGED << cfgVars, offVars, lockVars, clientVars, last_tick_ns, callVars, scriptVars,
                    logVars, drawn, written, delivered >>

\* pending_reader.lock() is granted: remove the entry and send the reply
ReaderRoute ==
    /\ Running
    /\ rstate = "lock"
    /\ Free(guards, "pending")
    /\ guards' = DropGuard(Acquire(guards, "pending", "reader"), "pending")
    /\ LET hit == Lookup(pending, Unwrap(msg.id))
           live == IsSome(hit) /\ rx.live /\ call_id = Unwrap(hit)
       IN  /\ pending' = TableAfterRemove(pending, hit)
           /\ rx' = IF live
                    THEN [rx EXCEPT !.val = Some(RpcResponse(msg, recv_ts_mono))]
                    ELSE rx
           /\ delivered' = IF live THEN Append(delivered, Unwrap(hit))
                           ELSE delivered
           /\ discarded' = IF IsSome(hit) THEN discarded
                           ELSE discarded \cup {Discard(msg, delivered)}
    /\ rstate' = "next"
    /\ msg' = NoFrame
    /\ recv_ts_mono' = 0
    /\ UNCHANGED << clock, cfgVars, offVars, next_id, unsolicited, tickVars,
                    callVars, scriptVars, logVars, drawn, written >>

(***************************************************************************)
(* Tick tracking task, main.rs 54-67.                                      *)
(***************************************************************************)
\* evt.channel.starts_with("book.")
StartsWithBook(channel) == Len(channel) >= 2 /\ channel[1] = "book"

\* recv_ts_mono.duration_since(program_start).as_nanos() as i64
InstantToNs(t) == IF t >= program_start THEN t - program_start ELSE 0

\* Faulty variant of TickAfter: only an empty cache is filled.  C8 must not
\* hold under it.
TickAfterKeepFirst(cache, evt) ==
    IF StartsWithBook(evt.channel) /\ cache = None
    THEN Some(InstantToNs(evt.recv_ts_mono))
    ELSE cache

\* the cache after the task has handled evt
TickAfter(cache, evt) ==
    IF StartsWithBook(evt.channel) THEN Some(InstantToNs(evt.recv_ts_mono))
    ELSE cache

TickTaskRecv ==
    /\ Running
    /\ tick_task
    /\ md_queue # << >>
    /\ IF StartsWithBook(Head(md_queue).channel)
       THEN /\ Free(guards, "last_tick_ns")
            /\ guards' = DropGuard(Acquire(guards, "last_tick_ns", "tick"),
                                   "last_tick_ns")
       ELSE UNCHANGED guards
    /\ last_tick_ns' = TickAfter(last_tick_ns, Head(md_queue))
    /\ md_queue' = Tail(md_queue)
    /\ UNCHANGED << clock, cfgVars, offVars, clientVars, readerVars, callVars,
                    scriptVars, logVars, histVars >>

(***************************************************************************)
(* timed_rpc, main.rs 311-345, and log_sample, latency.rs 133-200.         *)
(***************************************************************************)
\* the calls that go through timed_rpc
Timed(s) == s \in {"open", "edit", "cancel"}

\* to.duration_since(from).as_micros() as i64; duration_since saturates
DurationUs(from, to) == IF to >= from THEN (to - from) \div 1000 ELSE 0

\* (ns as f64 / 1000.0).round() as i64; round() rounds half away from zero
RoundUs(ns) ==
    IF ns >= 0 THEN (ns + 500) \div 1000 ELSE 0 - ((500 - ns) \div 1000)

\* tick_ts_mono_ns.map(|tick_ns| ((at_ns - tick_ns) as f64 / 1000.0).round())
TickTo(tick, at_ns) ==
    IF IsSome(tick) THEN Some(RoundUs(at_ns - Unwrap(tick))) ELSE None

\* extract_error, latency.rs 116-130
ExtractErrorCode(r) ==
    IF IsSome(r.error) THEN Some(Unwrap(r.error).code) ELSE None
ExtractErrorMsg(r) ==
    IF IsSome(r.error) THEN Some(Unwrap(r.error).message) ELSE None

\* the op_type label the script passes for a call (cfg.side is Buy)
OpType(s) == IF s = "open" THEN "buy" ELSE s

\* Faulty variant of RoundtripSample: the tick is read from the cache when
\* the reply is logged.  C19 must not hold under it.
RoundtripSampleTickAtLog(op, order_id, tick, send, r, last_ack) ==
    LET send_mono_ns == InstantToNs(send)
        recv_mono_ns == InstantToNs(r.recv_ts_mono)
    IN  [op_type |-> op,
         order_id |-> order_id,
         tick_ts_mono_ns |-> last_tick_ns,
         send_ts_mono_ns |-> send_mono_ns,
         recv_ts_mono_ns |-> recv_mono_ns,
         rtt_mono_us |-> DurationUs(send, r.recv_ts_mono),
         tick_to_send_us |-> TickTo(last_tick_ns, send_mono_ns),
         tick_to_ack_us |-> TickTo(last_tick_ns, recv_mono_ns),
         error_code |-> ExtractErrorCode(r),
         error_msg |-> ExtractErrorMsg(r),
         ack_delta_prev_us |-> TickTo(last_ack, recv_mono_ns)]

\* the RoundtripSample log_sample builds, latency.rs 145-195
RoundtripSample(op, order_id, tick, send, r, last_ack) ==
    LET send_mono_ns == InstantToNs(send)
        recv_mono_ns == InstantToNs(r.recv_ts_mono)
    IN  [op_type |-> op,
         order_id |-> order_id,
         tick_ts_mono_ns |-> tick,
         send_ts_mono_ns |-> send_mono_ns,
         recv_ts_mono_ns |-> recv_mono_ns,
         rtt_mono_us |-> DurationUs(send, r.recv_ts_mono),
         tick_to_send_us |-> TickTo(tick, send_mono_ns),
         tick_to_ack_us |-> TickTo(tick, recv_mono_ns),
         error_code |-> ExtractErrorCode(r),
         error_msg |-> ExtractErrorMsg(r),
         ack_delta_prev_us |-> TickTo(last_ack, recv_mono_ns)]

\* Faulty variant of TimedPhaseAfter: the send time is taken before the
\* tick cache is read.  C25 must not hold under it.
TimedPhaseStampFirst(p) ==
    CASE p = "enter" -> "stamp"
      [] p = "stamp" -> "snap"
      [] p = "snap" -> "draw"

\* the order of the steps of timed_rpc before send_rpc: read the tick
\* cache (main.rs 321-324), take the send time (326-327), call send_rpc
TimedPhaseAfter(p) ==
    CASE p = "enter" -> "snap"
      [] p = "snap" -> "stamp"
      [] p = "stamp" -> "draw"

\* last_tick_ns.read() is granted: the snapshot *guard is taken
TimedRpcStart ==
    /\ Running
    /\ pc = "snap"
    /\ Free(guards, "last_tick_ns")
    /\ guards' = DropGuard(Acquire(guards, "last_tick_ns", "main"),
                           "last_tick_ns")
    /\ tick_snap' = last_tick_ns
    /\ pc' = TimedPhaseAfter("snap")
    /\ UNCHANGED << clock, cfgVars, offVars, clientVars, readerVars, tickVars,
                    call_id, send_ts_mono, site, iter, order_id_state,
                    tick_task, logVars, histVars >>

\* send_ts_mono = Instant::now()
TimedRpcStamp ==
    /\ Running
    /\ pc = "stamp"
    /\ \E t \in Now(scenario, clock) : clock' = t /\ send_ts_mono' = t
    /\ pc' = TimedPhaseAfter("stamp")
    /\ UNCHANGED << cfgVars, offVars, lockVars, clientVars, readerVars,
                    tickVars, call_id, tick_snap, site, iter, order_id_state,
                    tick_task, logVars, histVars >>

\* Faulty variant of AckAfter: the logger remembers the first receive time
\* only.  C11 must not hold under it.
AckKeepFirst(last, r) ==
    IF IsSome(last) THEN last ELSE Some(InstantToNs(r.recv_ts_mono))

\* self.last_ack_recv_ns = Some(recv_mono_ns), latency.rs 173
AckAfter(last, r) == Some(InstantToNs(r.recv_ts_mono))

\* Faulty variant of Flush: the row stays in the buffer.  C14 must not
\* hold under it.
FlushNothing(file, buf) == [file |-> file, buf |-> buf]

\* self.writer.serialize(sample), latency.rs 197: the record goes to the
\* writer's buffer
Serialize(buf, row) == Append(buf, row)

\* self.writer.flush(), latency.rs 198: the buffer goes to the file
Flush(file, buf) == [file |-> file \o buf, buf |-> << >>]

\* the calls whose reply timed_rpc hands to log_sample
Logs(out) == Timed(site) /\ IsSome(out)

\* what timed_rpc does with Ok(resp): logger.log_sample(sample_ctx), which
\* ends as io says; a call that is not timed logs nothing.  An I/O error
\* leaves the file as it was; the record is in the buffer if it was
\* serialized.
Logged(out, io) ==
    IF Logs(out)
    THEN LET r == Unwrap(out)
             oid == IF site = "open" THEN None ELSE order_id_state
             row == RoundtripSample(OpType(site), oid, tick_snap,
                                    send_ts_mono, r, last_ack_recv_ns)
             done == Flush(csv, Serialize(wbuf, row))
         IN  /\ last_ack_recv_ns' = AckAfter(last_ack_recv_ns, r)
             /\ csv' = IF io = "ok" THEN done.file ELSE csv
             /\ wbuf' = CASE io = "ok" -> done.buf
                          [] io = "serialize" -> wbuf
                          [] io = "flush" -> Serialize(wbuf, row)
             /\ logged' = IF io = "ok" THEN logged + 1 ELSE logged
    ELSE UNCHANGED logVars

(***************************************************************************)
(* The script of the main task: connect (authenticate), main and           *)
(* run_roundtrip_test.  Each operator below is what the caller does with   *)
(* the value out that send_rpc or timed_rpc returned (None for Err, Some   *)
(* for Ok), up to its next .await.                                         *)
(***************************************************************************)
\* the main task starts the call s
Goto(s) ==
    /\ site' = s
    /\ pc' = IF Timed(s) THEN TimedPhaseAfter("enter") ELSE "draw"

\* main returns: Ok(()) is "ok", an error propagated by `?` is "err"
Exit(status) ==
    /\ site' = "exit"
    /\ pc' = status

\* resp.error.is_some()
HasError(r) == IsSome(r.error)

\* result.get("order").get("order_id").as_str(), main.rs 229-231
ExtractOrderId(r) == IF IsSome(r.result) THEN Unwrap(r.result) ELSE None

\* the end of one iteration of the for loop, main.rs 189 and 304-307
NextIteration ==
    IF iter + 1 < num_iterations
    THEN Goto("open") /\ iter' = iter + 1
    ELSE Exit("ok") /\ UNCHANGED iter

\* Faulty variant of AuthDone: the error payload of the reply is not
\* looked at.  C15 must not hold under it.
AuthDoneAnyReply(out) ==
    /\ IF out = None
       THEN Exit("err") /\ UNCHANGED tick_task
       ELSE /\ tick_task' = TRUE
            /\ Goto(IF subscribe_raw_book THEN "subscribe"
                    ELSE "get_instrument")
    /\ UNCHANGED << iter, order_id_state >>

\* authenticate and the end of connect, deribit_client.rs 138-143, 159-163;
\* main then spawns the tick tracking task, main.rs 45-68
AuthDone(out) ==
    /\ IF out = None \/ HasError(Unwrap(out))
       THEN Exit("err") /\ UNCHANGED tick_task
       ELSE /\ tick_task' = TRUE
            /\ Goto(IF subscribe_raw_book THEN "subscribe"
                    ELSE "get_instrument")
    /\ UNCHANGED << iter, order_id_state >>

\* main.rs 81-86
SubscribeDone(out) ==
    /\ IF out = None THEN Exit("err") ELSE Goto("get_instrument")
    /\ UNCHANGED << iter, order_id_state, tick_task >>

\* fetch_tick_size, main.rs 90 and 141-154
GetInstrumentDone(out) ==
    /\ IF out = None \/ HasError(Unwrap(out))
       THEN Exit("err")
       ELSE Goto("ticker")
    /\ UNCHANGED << iter, order_id_state, tick_task >>

\* fetch_ticker_price and its fallback, main.rs 99-102 and 156-169; then
\* LatencyLogger::new and the entry of run_roundtrip_test, main.rs 110-129
TickerDone(out) ==
    /\ IF 0 < num_iterations THEN Goto("open") ELSE Exit("ok")
    /\ UNCHANGED << iter, order_id_state, tick_task >>

\* main.rs 216-243 and 297-304
OpenDone(out) ==
    /\ IF out = None
       THEN Exit("err") /\ UNCHANGED << order_id_state, iter >>
       ELSE LET oid == ExtractOrderId(Unwrap(out))
                maybe_order_id == IF IsSome(oid) THEN oid ELSE order_id_state
            IN  /\ order_id_state' = maybe_order_id
                /\ IF IsSome(maybe_order_id)
                   THEN Goto("edit") /\ UNCHANGED iter
                   ELSE NextIteration
    /\ UNCHANGED tick_task

\* Faulty variant of EditDone: an error payload aborts the run, as it does
\* in fetch_tick_size.  C12 must not hold under it.
EditDoneAbortOnError(out) ==
    /\ IF out = None \/ HasError(Unwrap(out))
       THEN Exit("err")
       ELSE Goto("cancel")
    /\ UNCHANGED << iter, order_id_state, tick_task >>

\* main.rs 261-273
EditDone(out) ==
    /\ IF out = None THEN Exit("err") ELSE Goto("cancel")
    /\ UNCHANGED << iter, order_id_state, tick_task >>

\* Faulty variant of CancelDone: the stored order id is not cleared after
\* the cancel.  C26 must not hold under it.
CancelDoneKeepId(out) ==
    /\ IF out = None
       THEN Exit("err") /\ UNCHANGED << order_id_state, iter >>
       ELSE UNCHANGED order_id_state /\ NextIteration
    /\ UNCHANGED tick_task

\* main.rs 280-296 and 304
CancelDone(out) ==
    /\ IF out = None
       THEN Exit("err") /\ UNCHANGED << order_id_state, iter >>
       ELSE order_id_state' = None /\ NextIteration
    /\ UNCHANGED tick_task

\* send_rpc has returned out to the call site; the locals of the call die
Returns(out) ==
    /\ \E io \in IF Logs(out) THEN LogOutcomes(scenario) ELSE {"ok"} :
          /\ Logged(out, io)
          /\ LET res == IF io = "ok" THEN out ELSE None
             IN  CASE site = "auth" -> AuthDone(res)
                   [] site = "subscribe" -> SubscribeDone(res)
                   [] site = "get_instrument" -> GetInstrumentDone(res)
                   [] site = "ticker" -> TickerDone(res)
                   [] site = "open" -> OpenDone(res)
                   [] site = "edit" -> EditDone(res)
                   [] site = "cancel" -> CancelDone(res)
    /\ call_id' = 0
    /\ tick_snap' = None
    /\ send_ts_mono' = 0

(***************************************************************************)
(* send_rpc, deribit_client.rs 166-190, run by the main task.              *)
(***************************************************************************)
\* Faulty variant of DrawNext: the counter is read but not advanced.  C3
\* must not hold under it.
DrawSame(n) == n

\* the counter after *id_guard += 1
DrawNext(n) == n + 1

\* Faulty variant of PhaseAfter: the request is written before the Sender
\* is inserted.  C4 must not hold under it.
PhaseAfterWriteFirst(p) ==
    CASE p = "draw" -> "write"
      [] p = "write" -> "register"
      [] p = "register" -> "await"

\* the order of the steps of send_rpc: draw the id, insert the Sender,
\* write the request, await the Receiver
PhaseAfter(p) ==
    CASE p = "draw" -> "register"
      [] p = "register" -> "write"
      [] p = "write" -> "await"

\* send_rpc borrows the client exclusively (&mut self) from its first line
\* until it returns
ClientBorrowed == pc \in {"draw", "register", "write", "await"}

NoRx == [live |-> FALSE, val |-> None]

\* next_id.lock() is granted
SendRpcDraw ==
    /\ Running
    /\ pc = "draw"
    /\ call_id' = next_id
    /\ next_id' = DrawNext(next_id)
    /\ drawn' = Append(drawn, next_id)
    /\ pc' = PhaseAfter("draw")
    /\ UNCHANGED << clock, cfgVars, offVars, lockVars, pending, rx, readerVars, tickVars,
                    tick_snap, send_ts_mono, site, iter, order_id_state,
                    tick_task, logVars, written, delivered, discarded >>

\* oneshot::channel(); pending.lock() is granted; pending_guard.insert(id, tx)
SendRpcRegister ==
    /\ Running
    /\ pc = "register"
    /\ Free(guards, "pending")
    /\ guards' = DropGuard(Acquire(guards, "pending", "main"), "pending")
    /\ pending' = pending \cup {call_id}
    /\ rx' = [live |-> TRUE, val |-> None]
    /\ pc' = PhaseAfter("register")
    /\ UNCHANGED << clock, cfgVars, offVars, next_id, readerVars, tickVars,
                    callVars, site, iter, order_id_state, tick_task, logVars,
                    histVars >>

\* self.ws_tx.send(..).await succeeds
SendRpcWrite ==
    /\ Running
    /\ pc = "write"
    /\ written' = written \cup {call_id}
    /\ pc' = PhaseAfter("write")
    /\ UNCHANGED << clock, cfgVars, offVars, lockVars, clientVars, readerVars, tickVars,
                    callVars, site, iter, order_id_state, tick_task,
                    logVars, drawn, delivered, discarded >>

\* self.ws_tx.send(..).await fails: `?` returns the error, the Receiver is
\* dropped, the Sender stays in the table
SendRpcWriteFails ==
    /\ Running
    /\ pc = "write"
    /\ WriteMayFail(scenario)
    /\ rx' = NoRx
    /\ Returns(None)
    /\ UNCHANGED << clock, cfgVars, offVars, lockVars, next_id, pending, readerVars, tickVars,
                    histVars >>

\* rx.await yields the reply; send_rpc returns Ok(resp)
SendRpcAwait ==
    /\ Running
    /\ pc = "await"
    /\ IsSome(rx.val)
    /\ rx' = NoRx
    /\ Returns(rx.val)
    /\ UNCHANGED << clock, cfgVars, offVars, lockVars, next_id, pending, readerVars, tickVars,
                    histVars >>

(***************************************************************************)
(* The summary (summary.rs).  print_stats sorts the series it is given and *)
(* prints count, min, median, p90, p99 and max, or "no data" for an empty  *)
(* series.  percentile computes rank = (p / 100.0) * (n - 1) in f64 and    *)
(* truncates it; for p in {50, 90, 99} and every n a series can have that  *)
(* is the integer quotient (p * (n - 1)) \div 100, which is how the index  *)
(* is computed here.  Sequences are 1-based, slices 0-based.               *)
(***************************************************************************)
RECURSIVE InsertSorted(_, _)
InsertSorted(sorted, v) ==
    IF sorted = << >> THEN << v >>
    ELSE IF v <= Head(sorted) THEN << v >> \o sorted
    ELSE << Head(sorted) >> \o InsertSorted(Tail(sorted), v)

RECURSIVE SortUnstable(_)
SortUnstable(data) ==
    IF data = << >> THEN << >>
    ELSE InsertSorted(SortUnstable(Tail(data)), Head(data))

PercentileNearestRank(sorted, p) ==
    IF sorted = << >> THEN 0
    ELSE IF Len(sorted) = 1 THEN sorted[1]
    ELSE sorted[(p * Len(sorted) + 99) \div 100]

percentile(sorted, p) ==
    IF sorted = << >> THEN 0
    ELSE IF Len(sorted) = 1 THEN sorted[1]
    ELSE LET n == Len(sorted)
             idx == (p * (n - 1)) \div 100
         IN  sorted[idx + 1]

print_stats(data) ==
    IF data = << >> THEN None
    ELSE LET sorted == SortUnstable(data)
             n == Len(sorted)
         IN  Some([count |-> n,
                   min |-> sorted[1],
                   median |-> percentile(sorted, 50),
                   p90 |-> percentile(sorted, 90),
                   p99 |-> percentile(sorted, 99),
                   max |-> sorted[n]])

PrintStats ==
    /\ ~printed
    /\ sample = None
    /\ printed' = TRUE
    /\ stats' = print_stats(series)
    /\ UNCHANGED << progVars, series, sample, reread >>

(***************************************************************************)
(* A record on disk.  writer.serialize (latency.rs 197) writes the fields  *)
(* of a RoundtripSample in declaration order, separated by commas: an      *)
(* integer as its decimal digits, a String as its text, put in quotes with *)
(* inner quotes doubled when it holds a comma or a quote, and an Option as *)
(* nothing for None and as its content for Some.  A reader splits the line *)
(* at the commas outside quotes and deserializes each field by its type:   *)
(* an empty field of an Option type is None (summary.rs 24-25).  A text is *)
(* a sequence of one-character strings.                                    *)
(***************************************************************************)
DigitChars == << "0", "1", "2", "3", "4", "5", "6", "7", "8", "9" >>
Comma == ","
Quote == "\""

RECURSIVE NatToText(_)
NatToText(n) ==
    IF n < 10 THEN << DigitChars[n + 1] >>
    ELSE Append(NatToText(n \div 10), DigitChars[(n % 10) + 1])

IntToText(n) == IF n < 0 THEN << "-" >> \o NatToText(0 - n) ELSE NatToText(n)

DigitValue(c) == CHOOSE d \in 0..9 : DigitChars[d + 1] = c

RECURSIVE TextToNat(_, _)
TextToNat(text, acc) ==
    IF text = << >> THEN acc
    ELSE TextToNat(Tail(text), 10 * acc + DigitValue(Head(text)))

TextToInt(text) ==
    IF Head(text) = "-" THEN 0 - TextToNat(Tail(text), 0)
    ELSE TextToNat(text, 0)

NeedsQuotes(text) == \E i \in DOMAIN text : text[i] \in {Comma, Quote}

RECURSIVE DoubleQuotes(_)
DoubleQuotes(text) ==
    IF text = << >> THEN << >>
    ELSE (IF Head(text) = Quote THEN << Quote, Quote >> ELSE << Head(text) >>)
         \o DoubleQuotes(Tail(text))

WriteField(text) ==
    IF NeedsQuotes(text) THEN << Quote >> \o DoubleQuotes(text) \o << Quote >>
    ELSE text

\* the columns of a record, in the order of the struct (latency.rs 15-41)
Columns ==
    << "op_type", "order_id", "tick_ts_mono_ns", "send_ts_mono_ns",
       "recv_ts_mono_ns", "rtt_mono_us", "tick_to_send_us", "tick_to_ack_us",
       "error_code", "error_msg", "ack_delta_prev_us" >>
StringColumns == {"op_type"}
IntColumns == {"send_ts_mono_ns", "recv_ts_mono_ns", "rtt_mono_us"}
OptionStringColumns == {"order_id", "error_msg"}
OptionIntColumns == {"tick_ts_mono_ns", "tick_to_send_us", "tick_to_ack_us",
                     "error_code", "ack_delta_prev_us"}

SerializeField(col, v) ==
    IF col \in StringColumns THEN WriteField(v)
    ELSE IF col \in IntColumns THEN IntToText(v)
    ELSE IF col \in OptionStringColumns
         THEN (IF IsSome(v) THEN WriteField(Unwrap(v)) ELSE << >>)
    ELSE (IF IsSome(v) THEN IntToText(Unwrap(v)) ELSE << >>)

RECURSIVE JoinFields(_)
JoinFields(fields) ==
    IF Len(fields) = 1 THEN fields[1]
    ELSE fields[1] \o << Comma >> \o JoinFields(Tail(fields))

SerializeRecord(s) ==
    JoinFields([i \in DOMAIN Columns |-> SerializeField(Columns[i], s[Columns[i]])])

RECURSIVE SplitFields(_, _, _, _)
SplitFields(text, cur, quoted, fields) ==
    IF text = << >> THEN Append(fields, cur)
    ELSE LET c == Head(text)
             rest == Tail(text)
         IN  IF quoted
             THEN IF c = Quote
                  THEN IF rest # << >> /\ Head(rest) = Quote
                       THEN SplitFields(Tail(rest), Append(cur, Quote), TRUE, fields)
                       ELSE SplitFields(rest, cur, FALSE, fields)
                  ELSE SplitFields(rest, Append(cur, c), TRUE, fields)
             ELSE IF c = Comma
                  THEN SplitFields(rest, << >>, FALSE, Append(fields, cur))
             ELSE IF c = Quote /\ cur = << >>
                  THEN SplitFields(rest, cur, TRUE, fields)
             ELSE SplitFields(rest, Append(cur, c), FALSE, fields)

DeserializeField(col, text) ==
    IF col \in StringColumns THEN text
    ELSE IF col \in IntColumns THEN TextToInt(text)
    ELSE IF col \in OptionStringColumns
         THEN (IF text = << >> THEN None ELSE Some(text))
    ELSE (IF text = << >> THEN None ELSE Some(TextToInt(text)))

ColumnIndex(col) == CHOOSE i \in DOMAIN Columns : Columns[i] = col

DeserializeRecord(line) ==
    LET fields == SplitFields(line, << >>, FALSE, << >>)
    IN  [col \in Range(Columns) |-> DeserializeField(col, fields[ColumnIndex(col)])]

\* one sample is serialized, flushed, and its record read back
LogAndReread ==
    /\ IsSome(sample)
    /\ reread = None
    /\ reread' = Some(DeserializeRecord(SerializeRecord(Unwrap(sample))))
    /\ UNCHANGED << progVars, series, printed, stats, sample >>

(***************************************************************************)
(* The specification.  Init is the state in connect after the client is    *)
(* built (deribit_client.rs 131-135): the stream is open, the reader task  *)
(* is spawned, and authenticate is about to call send_rpc.                 *)
(***************************************************************************)
InitState ==
    /\ clock = program_start
    /\ next_id = FirstId
    /\ guards = NoGuards
    /\ pending = {}
    /\ rx = NoRx
    /\ rstate = "next"
    /\ msg = NoFrame
    /\ recv_ts_mono = 0
    /\ unsolicited = 0
    /\ md_queue = << >>
    /\ tick_task = FALSE
    /\ last_tick_ns = None
    /\ site = "auth"
    /\ pc = "draw"
    /\ iter = 0
    /\ call_id = 0
    /\ tick_snap = None
    /\ send_ts_mono = 0
    /\ order_id_state = None
    /\ last_ack_recv_ns = None
    /\ csv = << >>
    /\ wbuf = << >>
    /\ logged = 0
    /\ drawn = << >>
    /\ written = {}
    /\ delivered = << >>
    /\ discarded = {}

InitProgram ==
    /\ subscribe_raw_book \in BOOLEAN
    /\ num_iterations \in 0..MaxIter
    /\ scenario \in Scenarios
    /\ InitState

Init ==
    /\ InitProgram
    /\ series = << >>
    /\ printed = FALSE
    /\ stats = None
    /\ sample = None
    /\ reread = None

Reader ==
    \/ \E f \in Frames(scenario, next_id, pending) : ReaderNext(f)
    \/ ReaderRoute

Main ==
    \/ TimedRpcStart \/ TimedRpcStamp
    \/ SendRpcDraw \/ SendRpcRegister \/ SendRpcWrite \/ SendRpcWriteFails
    \/ SendRpcAwait

Next == Reader \/ TickTaskRecv \/ Main

Spec == Init /\ [][Next]_vars

(***************************************************************************)
(* The summary and the record format on their own: the series print_stats  *)
(* is given and the sample that is logged are drawn at the start, and the  *)
(* program itself does not run.                                            *)
(***************************************************************************)
RECURSIVE Descending(_)
Descending(n) == IF n = 0 THEN << >> ELSE << n >> \o Descending(n - 1)

SeriesInputs ==
    UNION { [1..n -> 1..MaxVal] : n \in 0..MaxLen }
        \cup { Descending(10), Descending(12) }

TextInputs == { << >>, << "x" >>, << "x", Comma, Quote >> }
IntInputs == { 0, 42, 0 - 1500 }
DurationInputs == { 0, 42, 1500 }
OptionOf(S) == { None } \cup { Some(v) : v \in S }

SampleInputs ==
    { [op_type |-> << "b", "u", "y" >>,
       order_id |-> oid,
       tick_ts_mono_ns |-> None,
       send_ts_mono_ns |-> 600,
       recv_ts_mono_ns |-> 1200,
       rtt_mono_us |-> rtt,
       tick_to_send_us |-> tts,
       tick_to_ack_us |-> None,
       error_code |-> code,
       error_msg |-> emsg,
       ack_delta_prev_us |-> None] :
      oid \in OptionOf(TextInputs), rtt \in DurationInputs,
      tts \in OptionOf(IntInputs), code \in OptionOf(IntInputs),
      emsg \in OptionOf(TextInputs) }

InitOffline ==
    /\ subscribe_raw_book = FALSE
    /\ num_iterations = 0
    /\ scenario = "frames"
    /\ InitState
    /\ printed = FALSE
    /\ stats = None
    /\ reread = None
    /\ \/ series \in SeriesInputs /\ sample = None
       \/ series = << >> /\ sample \in OptionOf(SampleInputs) \ {None}

NextOffline == PrintStats \/ LogAndReread

SpecOffline == InitOffline /\ [][NextOffline]_vars

(***************************************************************************)
(* The script over several iterations: the program runs as in Spec with    *)
(* the configuration fixed to ScriptIter iterations and no subscription,   *)
(* against a server that sends every kind of frame or every payload.       *)
(***************************************************************************)
InitScript ==
    /\ subscribe_raw_book = FALSE
    /\ num_iterations = ScriptIter
    /\ scenario \in {"frames", "payload"}
    /\ InitState
    /\ series = << >>
    /\ printed = FALSE
    /\ stats = None
    /\ sample = None
    /\ reread = None

SpecScript == InitScript /\ [][Next]_vars

(***************************************************************************)
(* Properties.                                                             *)
(***************************************************************************)
NoDup(seq) == \A i, j \in DOMAIN seq : i # j => seq[i] # seq[j]

\* C1: a reply is delivered only to the call that registered its id: the
\* reply a call's Receiver holds carries that call's own id, also while
\* other entries are in the table; every id delivered was drawn by a call,
\* and the reply a call holds is the last one delivered.
C1_ReplyToRegistrant ==
    /\ IsSome(rx.val) =>
          /\ rx.live
          /\ Unwrap(rx.val).id = call_id
          /\ delivered # << >>
          /\ delivered[Len(delivered)] = call_id
    /\ Range(delivered) \subseteq Range(drawn)

\* a call holds its own reply while the entry of another call is in the table
C1_Witness == IsSome(rx.val) /\ pending # {} /\ call_id \notin pending

\* C2: once the reader task has ended, a call that still awaits its reply
\* returns: the main task can take a step.
C2_PendingCallsFailOnClose ==
    (rstate = "done" /\ pc = "await" /\ rx.val = None) => ENABLED Main

\* the reader task has ended, the call awaits, and its Sender is still in
\* the table
C2_Hung ==
    rstate = "done" /\ pc = "await" /\ rx.val = None /\ call_id \in pending

\* C3: the first id drawn is 1 and each id drawn is greater than every id
\* drawn before it, so no id is drawn twice, also after a call whose write
\* failed.
C3_IdsStrictlyIncrease ==
    /\ drawn # << >> => drawn[1] = 1
    /\ \A i, j \in DOMAIN drawn : i < j => drawn[i] < drawn[j]

\* an id was drawn after a call whose write had failed
C3_Witness == \E i \in 1..(Len(drawn) - 1) : drawn[i] \notin written

\* C4: the Sender of id X is in the table before the request X is written:
\* every id whose request was written is in the table or has had its reply
\* delivered, so the first reply for X the reader routes after the write
\* finds the entry.
C4_RegisteredBeforeWritten ==
    /\ \A x \in written : x \in pending \/ x \in Range(delivered)
    /\ (/\ rstate = "lock"
        /\ Unwrap(msg.id) \in written
        /\ Unwrap(msg.id) \notin Range(delivered))
          => IsSome(Lookup(pending, Unwrap(msg.id)))

\* the reader is about to route the reply of a written request to its entry
C4_Witness ==
    /\ rstate = "lock"
    /\ msg.id = Some(call_id)
    /\ call_id \in written
    /\ call_id \in pending
    /\ pc = "await"

\* C5: while a call is suspended awaiting its reply, another call can be
\* issued on the same client: an id can be drawn.
C5_SecondCallCanStart ==
    (pc = "await" /\ rx.val = None) => ENABLED SendRpcDraw

\* the caller is suspended holding the client, and the reader is at work
C5_ReaderNotBlocked ==
    ClientBorrowed /\ pc = "await" /\ rx.val = None /\ rstate = "lock"

\* C6: routing a reply whose id is not in the table changes neither the
\* table nor any Receiver, delivers nothing, leaves the main task where it
\* is and the reader running; and no id is delivered twice.
C6_UnknownIdDropped ==
    /\ [](NoDup(delivered))
    /\ [][ (/\ rstate = "lock"
            /\ rstate' # "lock"
            /\ Unwrap(msg.id) \notin pending)
              => /\ pending' = pending
                 /\ rx' = rx
                 /\ delivered' = delivered
                 /\ site' = site /\ pc' = pc
                 /\ rstate' = "next" ]_vars

\* a reply for an id never registered and a second reply for an id already
\* served have both been dropped, after a delivery
C6_Witness ==
    /\ "duplicate" \in discarded
    /\ "unknown_id" \in discarded
    /\ rstate = "next"

\* the text frames of C7: the body is not JSON, or it is JSON with neither an
\* integer id nor the subscription method together with a channel
DroppedTextFrames ==
    { f \in MalformedFrames \cup EventFrames :
        /\ f.kind = "Text"
        /\ \/ ~f.json
           \/ /\ f.id = None
              /\ ~(f.method = Some("subscription") /\ IsSome(f.channel)) }

\* C7: reading such a text frame leaves the reader at ws_rx.next(), and the
\* table, the Receivers, the queue to the tick task, the tick cache, the
\* samples and the main task as they were.
C7_BadTextDropped ==
    [][ \A f \in DroppedTextFrames :
          ReaderNext(f) =>
            /\ rstate' = "next"
            /\ UNCHANGED << pending, rx, md_queue, last_tick_ns, csv,
                            site, pc >> ]_vars

\* a malformed body and an unroutable JSON body were read, and the reader
\* is still taking frames
C7_Witness ==
    /\ {"malformed", "unroutable"} \subseteq discarded
    /\ rstate = "next"
    /\ Running

\* the frame of C8, read at time t
BookEvent ==
    Frame("Text", TRUE, None, Some("subscription"),
          Some(BookChannel(instrument_name)), None, None)

\* C8: reading a book event of the instrument queues its receive time for
\* the tick task and changes neither the table, the Receivers nor the
\* samples; when the tick task takes it the cache becomes that receive
\* time, again with table, Receivers and samples unchanged.
C8_BookEventUpdatesTick ==
    [][ /\ ReaderNext(BookEvent) =>
             /\ md_queue' = Append(md_queue,
                                   [recv_ts_mono |-> clock',
                                    channel |-> BookChannel(instrument_name)])
             /\ UNCHANGED << pending, rx, csv, delivered, pc >>
        /\ (TickTaskRecv /\ Head(md_queue).channel = BookChannel(instrument_name))
             => /\ last_tick_ns' = Some(Head(md_queue).recv_ts_mono - program_start)
                /\ UNCHANGED << pending, rx, csv, delivered, pc >> ]_vars

\* the cache holds the receive time of a later book event while a call is
\* pending and has not been woken
C8_Witness ==
    /\ last_tick_ns = Some(TickNs)
    /\ md_queue = << >>
    /\ pc = "await" /\ rx.val = None /\ call_id \in pending
    /\ csv = << >>

\* C9: in every row written, rtt_mono_us is not negative and the receive
\* time is not earlier than the send time.
C9_RecvNotBeforeSend ==
    \A i \in DOMAIN csv :
        /\ csv[i].rtt_mono_us >= 0
        /\ csv[i].recv_ts_mono_ns >= csv[i].send_ts_mono_ns

\* a row whose receive time is earlier than its send time, with an rtt of 0
C9_EarlyReplyRow ==
    \E i \in DOMAIN csv :
        /\ csv[i].recv_ts_mono_ns < csv[i].send_ts_mono_ns
        /\ csv[i].rtt_mono_us = 0

\* C10: in every row written, tick_to_send_us and tick_to_ack_us are present
\* exactly when the call's tick snapshot held a time, and when present
\* tick_to_ack_us is at least tick_to_send_us.
C10_TickDeltas ==
    \A i \in DOMAIN csv :
        /\ IsSome(csv[i].tick_to_send_us) <=> IsSome(csv[i].tick_ts_mono_ns)
        /\ IsSome(csv[i].tick_to_ack_us) <=> IsSome(csv[i].tick_ts_mono_ns)
        /\ IsSome(csv[i].tick_ts_mono_ns) =>
              Unwrap(csv[i].tick_to_ack_us) >= Unwrap(csv[i].tick_to_send_us)

\* a row with a tick snapshot whose tick_to_ack_us is below tick_to_send_us
C10_AckBeforeSendRow ==
    \E i \in DOMAIN csv :
        /\ IsSome(csv[i].tick_ts_mono_ns)
        /\ Unwrap(csv[i].tick_to_ack_us) < Unwrap(csv[i].tick_to_send_us)

\* |x|
Abs(x) == IF x >= 0 THEN x ELSE 0 - x

\* C11: the first row has no ack_delta_prev_us; every later row has one, and
\* it is the difference of its receive time and the receive time of the row
\* before it, in microseconds, rounded to the nearest unit.
C11_AckDelta ==
    \A i \in DOMAIN csv :
        IF i = 1
        THEN csv[i].ack_delta_prev_us = None
        ELSE /\ IsSome(csv[i].ack_delta_prev_us)
             /\ 2 * Abs(1000 * Unwrap(csv[i].ack_delta_prev_us)
                        - (csv[i].recv_ts_mono_ns - csv[i - 1].recv_ts_mono_ns))
                  <= 1000

\* three rows, the second received one clock advance after the first
C11_Witness ==
    /\ Len(csv) = 3
    /\ csv[2].recv_ts_mono_ns - csv[1].recv_ts_mono_ns = TickNs
    /\ csv[2].ack_delta_prev_us = Some(1)
    /\ csv[3].ack_delta_prev_us = Some(0)

\* C12: when a timed call returns a reply with an error payload, exactly one
\* row is appended, carrying the payload's code and message; the rows
\* before it stay; and the script goes on to its next step (edit after
\* open when an order id is known, cancel after edit, the next iteration or
\* the normal end otherwise), never to the error exit.
C12_ErrorReplyNotFatal ==
    [][ (/\ pc = "await" /\ pc' # "await"
         /\ Timed(site)
         /\ HasError(Unwrap(rx.val)))
           => /\ Len(csv') = Len(csv) + 1
              /\ SubSeq(csv', 1, Len(csv)) = csv
              /\ csv'[Len(csv')].error_code = Some(Unwrap(Unwrap(rx.val).error).code)
              /\ csv'[Len(csv')].error_msg = Some(Unwrap(Unwrap(rx.val).error).message)
              /\ pc' # "err"
              /\ site = "open" => site' \in {"edit", "open", "exit"}
              /\ site = "edit" => site' = "cancel" /\ pc' = "snap"
              /\ site = "cancel" => site' \in {"open", "exit"} ]_vars

\* the edit call was answered with error 11044 and the cancel call is under
\* way
C12_Witness ==
    /\ site = "cancel"
    /\ Len(csv) = 2
    /\ csv[2].op_type = "edit"
    /\ csv[2].error_code = Some(11044)
    /\ csv[2].error_msg = Some("not_open_order")

\* C13: a reply with an error payload counts as failed, whatever its result
\* payload: the authentication call fails on it, a timed call's row records
\* the error, and an open call takes no order id from it and is not
\* followed by an edit.
C13_ErrorReplyIsFailure ==
    [][ (/\ pc = "await" /\ pc' # "await"
         /\ HasError(Unwrap(rx.val)))
           => /\ site = "auth" => site' = "exit" /\ pc' = "err"
              /\ Timed(site) =>
                    csv'[Len(csv')].error_code
                        = Some(Unwrap(Unwrap(rx.val).error).code)
              /\ site = "open" =>
                    order_id_state' = order_id_state /\ site' # "edit" ]_vars

\* the open call was answered with an error, and the edit call for the order
\* named in that reply is under way
C13_EditAfterFailedOpen ==
    /\ site = "edit"
    /\ Len(csv) = 1
    /\ IsSome(csv[1].error_code)
    /\ IsSome(order_id_state)

\* C14: the file holds one row per log_sample call that returned Ok, none
\* of them left in the writer's buffer when the call returned; the rows are
\* in call order (each call appends at the end, so send times do not
\* decrease along the file); and no step alters or removes a row the file
\* holds.
C14_AppendOnly ==
    /\ [](Len(csv) = logged)
    /\ [](wbuf # << >> => pc = "err")
    /\ [](\A i, j \in DOMAIN csv :
            i < j => csv[i].send_ts_mono_ns <= csv[j].send_ts_mono_ns)
    /\ [][ /\ Len(csv') \in {Len(csv), Len(csv) + 1}
           /\ SubSeq(csv', 1, Len(csv)) = csv ]_vars

\* two rows are in the file and a log_sample call has failed after them
C14_Witness ==
    /\ logged = 2
    /\ Len(csv) = 2
    /\ wbuf # << >>
    /\ pc = "err"

\* C15: the authentication call is the first call and draws id 1; connect
\* hands out the client, so that a second call can be made, exactly when
\* that call returns a reply without an error payload; otherwise main
\* returns the error, and after main has returned nothing is issued.
C15_AuthFirst ==
    /\ [](site = "auth" => drawn \in {<< >>, << 1 >>})
    /\ [](Len(drawn) >= 2 => delivered # << >> /\ delivered[1] = 1)
    /\ [][ (site = "auth" /\ site' # "auth")
             => IF pc = "await" /\ ~HasError(Unwrap(rx.val))
                THEN site' \in {"subscribe", "get_instrument"} /\ pc' = "draw"
                ELSE site' = "exit" /\ pc' = "err" ]_vars
    /\ [][ site # "exit" ]_vars

\* the authentication call got a reply with an error payload and main has
\* returned the error; only id 1 was drawn
C15_Witness ==
    /\ site = "exit" /\ pc = "err"
    /\ drawn = << 1 >>
    /\ delivered = << 1 >>

\* C16: when the write of a request fails, whatever the call, main returns
\* the error: the call is not made again and no further id is drawn.
C16_WriteFailureAborts ==
    [][ (pc = "write" /\ pc' \notin {"write", "await"})
           => /\ site' = "exit" /\ pc' = "err"
              /\ drawn' = drawn ]_vars

\* a timed call is under way although the Sender of an earlier call, whose
\* request was never written, is still in the table
C16_CallAfterFailedWrite ==
    /\ Timed(site)
    /\ \E x \in pending : x \notin written /\ x # call_id

\* the 0-based index floor(p / 100 * (n - 1))
FloorRank(p, n) ==
    CHOOSE k \in 0..(n - 1) : 100 * k <= p * (n - 1) /\ p * (n - 1) < 100 * (k + 1)

\* v stands at 0-based index k of data in ascending order
AtSortedIndex(v, k, data) ==
    /\ \E i \in DOMAIN data : data[i] = v
    /\ Cardinality({ i \in DOMAIN data : data[i] < v }) <= k
    /\ Cardinality({ i \in DOMAIN data : data[i] <= v }) >= k + 1

\* C17: for a non-empty series of n values, median, p90 and p99 are the
\* elements at 0-based index floor(p / 100 * (n - 1)) of the series in
\* ascending order for p = 50, 90, 99; each is a member of the series;
\* min <= median <= p90 <= p99 <= max; and for the series 1..10 the median
\* is 5 and p90 is 9.
C17_PercentileIndex ==
    (printed /\ series # << >>) =>
        /\ IsSome(stats)
        /\ LET st == Unwrap(stats)
               n == Len(series)
           IN  /\ st.count = n
               /\ AtSortedIndex(st.median, FloorRank(50, n), series)
               /\ AtSortedIndex(st.p90, FloorRank(90, n), series)
               /\ AtSortedIndex(st.p99, FloorRank(99, n), series)
               /\ AtSortedIndex(st.min, 0, series)
               /\ AtSortedIndex(st.max, n - 1, series)
               /\ st.min <= st.median /\ st.median <= st.p90
               /\ st.p90 <= st.p99 /\ st.p99 <= st.max
               /\ Range(series) = 1..10 /\ n = 10 => st.median = 5 /\ st.p90 = 9

C17_Witness ==
    /\ printed /\ IsSome(stats)
    /\ Len(series) = 12
    /\ Unwrap(stats).p90 < Unwrap(stats).p99
    /\ Unwrap(stats).p99 < Unwrap(stats).max

\* C18: a sample that is logged and read back from its record has the same
\* value in every field: an absent optional field is absent, a present one
\* is present with the same value, an empty string included.
C18_RoundTrip == IsSome(reread) => Unwrap(reread) = Unwrap(sample)

C18_EmptyStringReadsAbsent ==
    /\ IsSome(reread)
    /\ Unwrap(sample).error_msg = Some(<< >>)
    /\ Unwrap(reread).error_msg = None
    /\ \A col \in Range(Columns) \ OptionStringColumns :
           Unwrap(reread)[col] = Unwrap(sample)[col]

\* v is ns / 1000 rounded to the nearest integer
RoundedUs(v, ns) == 2 * Abs(1000 * v - ns) <= 1000

\* C19: timed_rpc takes the tick from the cache just before it takes the
\* send time; no step changes that snapshot while the call is under way,
\* whatever is written to the cache; and the row logged for the reply has
\* the snapshot as tick_ts_mono_ns and tick_to_send_us, tick_to_ack_us
\* computed from it, absent when it is absent.  A tick in a row is not
\* later than the row's send time.
C19_TickSnapshot ==
    /\ [][ /\ (pc = "snap" /\ pc' # "snap") => tick_snap' = last_tick_ns
           /\ (pc = "stamp" /\ pc' # "stamp") =>
                 tick_snap' = tick_snap /\ send_ts_mono' = clock'
           /\ (Timed(site) /\ site' = site /\ pc # "snap" /\ pc' # "snap") =>
                 tick_snap' = tick_snap
           /\ (/\ Timed(site) /\ site' = site
               /\ pc \notin {"snap", "stamp"} /\ pc' \notin {"snap", "stamp"}) =>
                 send_ts_mono' = send_ts_mono
           /\ Len(csv') = Len(csv) + 1 =>
                 LET row == csv'[Len(csv')]
                 IN  /\ row.tick_ts_mono_ns = tick_snap
                     /\ row.send_ts_mono_ns = send_ts_mono - program_start
                     /\ IF IsSome(tick_snap)
                        THEN /\ IsSome(row.tick_to_send_us)
                             /\ IsSome(row.tick_to_ack_us)
                             /\ RoundedUs(Unwrap(row.tick_to_send_us),
                                          row.send_ts_mono_ns - Unwrap(tick_snap))
                             /\ RoundedUs(Unwrap(row.tick_to_ack_us),
                                          row.recv_ts_mono_ns - Unwrap(tick_snap))
                        ELSE /\ row.tick_to_send_us = None
                             /\ row.tick_to_ack_us = None ]_vars
    /\ [](\A i \in DOMAIN csv :
             IsSome(csv[i].tick_ts_mono_ns) =>
                 Unwrap(csv[i].tick_ts_mono_ns) <= csv[i].send_ts_mono_ns)

\* the reply of a timed call is about to be logged and the cache has been
\* overwritten since the snapshot was taken
C19_Witness ==
    /\ Timed(site) /\ pc = "await" /\ IsSome(rx.val)
    /\ IsSome(last_tick_ns)
    /\ last_tick_ns # tick_snap

\* C20: a step changes the tick cache only if it is the tick task taking an
\* event whose channel is book.<instrument_name>.raw, and the subscription
\* is configured; an event on any other channel, or any event without a
\* subscription, leaves the cache as it was.
C20_OnlySubscribedChannel ==
    [][ last_tick_ns' # last_tick_ns =>
            /\ subscribe_raw_book
            /\ md_queue # << >>
            /\ Head(md_queue).channel = BookChannel(instrument_name) ]_vars

\* the cache holds a tick although the program subscribed to nothing
C20_TickWithoutSubscription ==
    /\ ~subscribe_raw_book
    /\ IsSome(last_tick_ns)

\* C21: at every .await of every task no guard of the table lock or of the
\* tick-cache lock is held, so the reader is granted the table lock whenever
\* it asks for it; and the reader can hand a market event to the channel
\* whatever the channel already holds and whether or not the tick task
\* takes anything from it.
C21_ReaderNeverBlocked ==
    /\ guards = NoGuards
    /\ (Running /\ rstate = "lock") => ENABLED ReaderRoute
    /\ (Running /\ rstate = "next" /\ unsolicited < MaxUnsolicited)
          => ENABLED ReaderNext(BookEvent)

\* the caller is suspended on its reply, the tick task does not run, the
\* channel holds two events, and the reader is about to route a reply
C21_Witness ==
    /\ pc = "await" /\ rx.val = None
    /\ ~tick_task /\ Len(md_queue) >= 2
    /\ rstate = "lock" /\ Unwrap(msg.id) = call_id

\* every frame the server can send in some run
AllFrames ==
    ControlFrames \cup MalformedFrames \cup EventFrames
        \cup ReplyFrames(FirstId..(FirstId + 3 * MaxIter + 4))
        \cup MarkedReplies(FirstId..(FirstId + 3 * MaxIter + 4))

\* what ends the loop: an Err item, a Close frame, the end of the stream
Terminal(f) == f.kind \in {"Err", "Close", "End"}

\* C22: the reader ends when, and only when, it reads an Err item, a Close
\* frame or the end of the stream: reading any other frame leaves it
\* running, and so does routing a reply, matched or not.  Once it has ended
\* it stays ended: no reply is delivered, no Receiver is filled and no
\* event is put into the channel.
C22_ReaderTermination ==
    [][ /\ \A f \in AllFrames :
              ReaderNext(f) => (rstate' = "done" <=> Terminal(f))
        /\ (rstate # "done" /\ rstate' = "done") =>
              \E f \in AllFrames : Terminal(f) /\ ReaderNext(f)
        /\ rstate = "lock" => rstate' # "done"
        /\ rstate = "done" =>
              /\ rstate' = "done"
              /\ UNCHANGED << msg, delivered, discarded >>
              /\ IsSome(rx'.val) => rx'.val = rx.val
              /\ pending' \subseteq pending \cup {call_id}
              /\ \/ md_queue' = md_queue
                 \/ md_queue # << >> /\ md_queue' = Tail(md_queue) ]_vars

\* the reader skipped a frame that matched nothing, then ended, with a
\* call still waiting
C22_Witness ==
    /\ rstate = "done"
    /\ discarded \cap {"control", "malformed", "unroutable", "unknown_id"} # {}
    /\ pc = "await" /\ rx.val = None

\* the body of f parses and has an integer id
HasNumericId(f) == f.kind = "Text" /\ f.json /\ IsSome(f.id)

\* C23: reading a frame does exactly one of four things: it goes to the
\* table lookup as a reply, it is queued as a market event, it ends the
\* reader, or it is dropped.  A frame with an integer id goes to the lookup
\* and nothing is queued, also when it has method "subscription" and a
\* channel; a frame is queued only if it has no integer id; routing a
\* reply touches neither the channel nor the tick cache.
C23_OneRoute ==
    [][ /\ \A f \in AllFrames :
              ReaderNext(f) =>
                LET asReply == rstate' = "lock" /\ msg' = f
                    asEvent == md_queue' # md_queue
                    asStop == rstate' = "done"
                    asDrop == discarded' = discarded \cup {Discard(f, delivered)}
                              /\ UNCHANGED << rstate, msg, md_queue >>
                IN  /\ Cardinality({ r \in {"reply", "event", "stop", "drop"} :
                                       \/ r = "reply" /\ asReply
                                       \/ r = "event" /\ asEvent
                                       \/ r = "stop" /\ asStop
                                       \/ r = "drop" /\ asDrop }) = 1
                    /\ HasNumericId(f) => asReply
                    /\ asEvent <=> /\ f.kind = "Text" /\ f.json /\ f.id = None
                                   /\ f.method = Some("subscription")
                                   /\ IsSome(f.channel)
                    /\ UNCHANGED << pending, rx, last_tick_ns, delivered >>
        /\ (rstate = "lock" /\ rstate' # "lock") =>
              UNCHANGED << md_queue, last_tick_ns >> ]_vars

\* a frame with the id of the waiting call, method "subscription" and the
\* book channel is at the table lookup, and nothing was queued
C23_Witness ==
    /\ rstate = "lock"
    /\ msg.method = Some("subscription") /\ IsSome(msg.channel)
    /\ Unwrap(msg.id) = call_id /\ call_id \in pending
    /\ md_queue = << >> /\ last_tick_ns = None

\* C24: every id in the table is the id of the call in progress, which has
\* inserted its Sender and not yet returned; once send_rpc has returned,
\* with a reply or with an error, its id is not in the table.
C24_TableOnlyAwaiting ==
    \A x \in pending :
        /\ x = call_id
        /\ pc \in {"write", "await"}
        /\ rx.live

\* a later call is awaiting its reply while the table still holds the id
\* of an earlier call, whose write had failed
C24_StaleEntry ==
    /\ pc = "await" /\ call_id \in pending
    /\ \E x \in pending : x < call_id /\ x \notin written

\* C25: no row has a negative tick_to_send_us.  The receive time of every
\* event in the channel and the time in the tick cache are readings of the
\* clock that lie in the past; a snapshot is not later than the send time
\* taken after it.
C25_TickToSendNotNegative ==
    /\ \A i \in DOMAIN csv :
          IsSome(csv[i].tick_to_send_us) => Unwrap(csv[i].tick_to_send_us) >= 0
    /\ \A k \in DOMAIN md_queue : md_queue[k].recv_ts_mono <= clock
    /\ IsSome(last_tick_ns) => Unwrap(last_tick_ns) <= clock - program_start
    /\ (Timed(site) /\ pc \in {"draw", "register", "write", "await"}
          /\ IsSome(tick_snap))
          => Unwrap(tick_snap) <= send_ts_mono - program_start

\* a row whose tick is earlier than its send time, logged while the cache
\* already holds a later tick
C25_Witness ==
    \E i \in DOMAIN csv :
        /\ IsSome(csv[i].tick_ts_mono_ns)
        /\ Unwrap(csv[i].tick_ts_mono_ns) < csv[i].send_ts_mono_ns
        /\ Unwrap(csv[i].tick_to_send_us) > 0
        /\ last_tick_ns # csv[i].tick_ts_mono_ns

\* the main task leaves the call site s in this step
Leaves(s) == site = s /\ (site' # s \/ (pc = "await" /\ pc' # "await"))

\* C26: while an iteration is at its open call the stored order id is
\* empty.  When the open call returns a reply that names an order, the edit
\* follows with that order id stored; when the reply names none, the next
\* iteration or the end follows and nothing is stored.  The edit is entered
\* only from the open, the cancel only from the edit, and after the cancel
\* the stored id is cleared.  The rows of edit and cancel carry the order
\* id the server named in the reply to the open call of their iteration.
C26_OrderIdPerIteration ==
    /\ [](site = "open" => order_id_state = None)
    /\ [](site \in {"edit", "cancel"} => IsSome(order_id_state))
    /\ [][ /\ (Leaves("open") /\ pc = "await" /\ pc' # "err") =>
                 LET result == Unwrap(rx.val).result
                     named == IF result = None THEN None ELSE result[1]
                 IN  IF IsSome(named)
                     THEN /\ site' = "edit" /\ iter' = iter
                          /\ order_id_state' = named
                     ELSE /\ order_id_state' = None
                          /\ \/ site' = "open" /\ iter' = iter + 1
                             \/ site' = "exit" /\ iter + 1 = num_iterations
           /\ Leaves("edit") =>
                 /\ site' \in {"cancel", "exit"}
                 /\ site' = "exit" => pc' = "err"
                 /\ order_id_state' = order_id_state /\ iter' = iter
           /\ (Leaves("cancel") /\ pc' # "err") =>
                 /\ order_id_state' = None
                 /\ \/ site' = "open" /\ iter' = iter + 1
                    \/ site' = "exit" /\ iter + 1 = num_iterations
           /\ (site' = "edit" /\ site # "edit") => site = "open"
           /\ (site' = "cancel" /\ site # "cancel") => site = "edit"
           /\ (Len(csv') = Len(csv) + 1 /\ site \in {"edit", "cancel"}) =>
                 LET row == csv'[Len(csv')]
                     back == IF site = "edit" THEN 1 ELSE 2
                 IN  /\ row.op_type = site
                     /\ row.order_id = order_id_state
                     /\ row.order_id =
                           Some(OrderIdFor(drawn[Len(drawn) - back])) ]_vars

\* the second iteration is at its cancel after a first iteration whose
\* open reply named no order
C26_Witness ==
    /\ iter = 1 /\ site = "cancel" /\ pc = "await"
    /\ Len(csv) = 3
    /\ csv[1].op_type = "buy" /\ csv[2].op_type = "buy"
    /\ csv[3].op_type = "edit"
    /\ csv[3].order_id = Some(OrderIdFor(drawn[Len(drawn) - 2]))

====
